---------------------------- MODULE Spec2Model ----------------------------
(***************************************************************************)
(* Model of drivechain/drivechain.go: the Go binding of the sidechain to   *)
(* the native drivechain library (two-way peg, withdrawal codec, BMM).     *)
(*                                                                         *)
(* The Go code is modelled from the source.  The native library behind     *)
(* the C.* calls is not part of the source tree; the definitions whose     *)
(* names start with "native_" model it from the written specification.     *)
(***************************************************************************)
EXTENDS Integers, Sequences, FiniteSets, TLC

(***************************************************************************)
(* Arbitrary-precision naturals (math/big, and the 64-bit machine words    *)
(* that do not fit the checker's integers).  A natural is the sequence of  *)
(* its decimal digits, least significant first, without leading zeros;     *)
(* zero is the empty sequence.                                             *)
(***************************************************************************)
RECURSIVE NatNorm(_)
NatNorm(d) ==
    IF d = <<>> THEN <<>>
    ELSE IF d[Len(d)] = 0 THEN NatNorm(SubSeq(d, 1, Len(d) - 1))
    ELSE d

RECURSIVE Reverse(_)
Reverse(s) == IF s = <<>> THEN <<>> ELSE Reverse(Tail(s)) \o <<Head(s)>>

\* The natural written in decimal, most significant digit first.
Dec(s) == NatNorm(Reverse(s))

NatDigit(d, i) == IF i <= Len(d) THEN d[i] ELSE 0

NatRest(d) == IF d = <<>> THEN <<>> ELSE Tail(d)

RECURSIVE NatAddC(_, _, _)
NatAddC(a, b, c) ==
    IF a = <<>> /\ b = <<>> THEN (IF c = 0 THEN <<>> ELSE <<c>>)
    ELSE LET s == NatDigit(a, 1) + NatDigit(b, 1) + c
         IN  <<s % 10>> \o NatAddC(NatRest(a), NatRest(b), s \div 10)

NatAdd(a, b) == NatAddC(a, b, 0)

\* -1, 0, 1 as a < b, a = b, a > b
RECURSIVE NatCmpFrom(_, _, _)
NatCmpFrom(a, b, i) ==
    IF i = 0 THEN 0
    ELSE IF a[i] < b[i] THEN -1
    ELSE IF a[i] > b[i] THEN 1
    ELSE NatCmpFrom(a, b, i - 1)

NatCmp(a, b) ==
    IF Len(a) < Len(b) THEN -1
    ELSE IF Len(a) > Len(b) THEN 1
    ELSE NatCmpFrom(a, b, Len(a))

\* a - b for a >= b
RECURSIVE NatSubB(_, _, _)
NatSubB(a, b, borrow) ==
    IF a = <<>> THEN <<>>
    ELSE LET s == a[1] - NatDigit(b, 1) - borrow
         IN  IF s < 0
             THEN <<s + 10>> \o NatSubB(Tail(a), NatRest(b), 1)
             ELSE <<s>> \o NatSubB(Tail(a), NatRest(b), 0)

NatSub(a, b) == NatNorm(NatSubB(a, b, 0))

\* a * k for a machine-sized k
RECURSIVE NatMulSmallC(_, _, _)
NatMulSmallC(a, k, c) ==
    IF a = <<>>
    THEN (IF c = 0 THEN <<>> ELSE <<c % 10>> \o NatMulSmallC(<<>>, k, c \div 10))
    ELSE LET s == a[1] * k + c
         IN  <<s % 10>> \o NatMulSmallC(Tail(a), k, s \div 10)

NatMulSmall(a, k) == NatNorm(NatMulSmallC(a, k, 0))

RECURSIVE NatMul(_, _)
NatMul(a, b) ==
    IF b = <<>> \/ a = <<>> THEN <<>>
    ELSE NatAdd(NatMulSmall(a, b[1]),
                LET r == NatMul(a, Tail(b)) IN IF r = <<>> THEN <<>> ELSE <<0>> \o r)

\* <<quotient, remainder>> of a by a machine-sized k > 0 (long division,
\* from the most significant digit; each partial remainder is below k)
RECURSIVE NatDivModSmallFrom(_, _, _, _)
NatDivModSmallFrom(a, k, i, rem) ==
    IF i = 0 \/ rem >= k THEN <<<<>>, rem>>
    ELSE LET cur  == rem * 10 + a[i]
             rest == NatDivModSmallFrom(a, k, i - 1, cur % k)
         IN  <<rest[1] \o <<cur \div k>>, rest[2]>>

NatDivModSmall(a, k) ==
    LET r == NatDivModSmallFrom(a, k, Len(a), 0) IN <<NatNorm(r[1]), r[2]>>

\* how many times b can be taken from r, and what is left (b > 0, r < 10 * b)
RECURSIVE NatTake(_, _, _)
NatTake(r, b, n) ==
    IF NatCmp(r, b) < 0 THEN <<n, r>> ELSE NatTake(NatSub(r, b), b, n + 1)

\* <<quotient, remainder>> of a by b > 0 (schoolbook long division, from
\* the most significant digit; each quotient digit is at most 9)
RECURSIVE NatDivModFrom(_, _, _, _)
NatDivModFrom(a, b, i, rem) ==
    IF i = 0 THEN <<<<>>, rem>>
    ELSE LET t == NatTake(NatNorm(<<a[i]>> \o rem), b, 0)
         IN  IF t[1] > 9 THEN <<<<>>, t[2]>>
             ELSE LET rest == NatDivModFrom(a, b, i - 1, t[2])
                  IN  <<rest[1] \o <<t[1]>>, rest[2]>>

NatDivMod(a, b) ==
    LET r == NatDivModFrom(a, b, Len(a), <<>>) IN <<NatNorm(r[1]), r[2]>>

NatOfInt(k) == NatMulSmall(<<1>>, k)


(***************************************************************************)
(* math/big.Int: a sign and a magnitude.                                   *)
(***************************************************************************)
BigInt(neg, abs) == [neg |-> neg /\ abs # <<>>, abs |-> abs]

BigNat(abs) == BigInt(FALSE, abs)

\* big.Int.Div(x, y) for y > 0: Euclidean division, the remainder is never negative
BigDiv(x, y) ==
    LET qr == NatDivMod(x.abs, y)
    IN  IF ~x.neg THEN BigNat(qr[1])
        ELSE IF qr[2] = <<>> THEN BigInt(TRUE, qr[1])
        ELSE BigInt(TRUE, NatAdd(qr[1], <<1>>))

\* 2^63 = 9223372036854775808
Two63 ==
    Dec(<<9, 2, 2, 3, 3, 7, 2, 0, 3, 6, 8, 5, 4, 7, 7, 5, 8, 0, 8>>)

\* 2^64 = 18446744073709551616
Two64 ==
    Dec(<<1, 8, 4, 4, 6, 7, 4, 4, 0, 7, 3, 7, 0, 9, 5, 5, 1, 6, 1, 6>>)

\* big.NewInt(int64(u)) for a uint64 u: the conversion reinterprets the 64 bits
NewIntOfInt64(u) ==
    IF NatCmp(u, Two63) >= 0 THEN BigInt(TRUE, NatSub(Two64, u)) ELSE BigNat(u)

\* big.Int.Uint64(): the low 64 bits of the magnitude
BigUint64(x) == NatDivMod(x.abs, Two64)[2]

(***************************************************************************)
(* Withdrawal codec                                                        *)
(***************************************************************************)
\* There are 10,000,000,000 Wei in one Satoshi
Satoshi == Dec(<<1, 0, 0, 0, 0, 0, 0, 0, 0, 0, 0>>)

WithdrawalDataLen == 28

FeeLen == 8

AddressLen == 20

\* the n low bytes of v, least significant first
RECURSIVE NatBytesLE(_, _)
NatBytesLE(v, n) ==
    IF n = 0 THEN <<>>
    ELSE LET qr == NatDivModSmall(v, 256)
         IN  <<qr[2]>> \o NatBytesLE(qr[1], n - 1)

\* binary.BigEndian.PutUint64 into make([]byte, 8)
PutUint64(v) == Reverse(NatBytesLE(v, FeeLen))

\* binary.BigEndian.Uint64
RECURSIVE Uint64From(_, _, _)
Uint64From(b, i, acc) ==
    IF i > FeeLen THEN acc
    ELSE Uint64From(b, i + 1, NatAdd(NatMulSmall(acc, 256), NatOfInt(b[i])))

Uint64(b) == Uint64From(b, 1, <<>>)

\* the slice expression data[lo:hi]; out of range is a run-time panic
GoSlice(data, lo, hi) ==
    IF lo > hi \/ hi > Len(data)
    THEN [ok |-> FALSE, s |-> <<>>]
    ELSE [ok |-> TRUE, s |-> SubSeq(data, lo + 1, hi)]

\* the copy loop into a [20]C.uchar
CopyAddress(bytes) ==
    [i \in 1..AddressLen |-> IF i <= Len(bytes) THEN bytes[i] % 256 ELSE 0]

DecodeGuardShorter(data) == Len(data) < WithdrawalDataLen

\* the length test that opens DecodeWithdrawal
DecodeGuard(data) == Len(data) # WithdrawalDataLen

\* fee := big.NewInt(int64(binary.BigEndian.Uint64(feeBytes)))
FeeOfBytes(feeBytes) == NewIntOfInt64(Uint64(feeBytes))

AmountRoundedUp(value) ==
    LET qr == NatDivMod(value.abs, Satoshi)
    IN  IF qr[2] = <<>> THEN BigInt(value.neg, qr[1])
        ELSE BigInt(value.neg, NatAdd(qr[1], <<1>>))

\* amount.Div(value, Satoshi)
AmountOfValue(value) == BigDiv(value, Satoshi)

Panic(msg) == [status |-> "panic", err |-> msg]

DecodeWithdrawal(value, data) ==
    IF DecodeGuard(data)
    THEN [status |-> "error", err |-> "wrong withdrawal data length"]
    ELSE LET feeBytes == GoSlice(data, 0, FeeLen)
         IN  IF ~feeBytes.ok THEN Panic("slice bounds out of range")
             ELSE IF Len(feeBytes.s) # FeeLen THEN Panic("off by one error")
             ELSE LET addressBytes == GoSlice(data, FeeLen, WithdrawalDataLen)
                  IN  IF ~addressBytes.ok THEN Panic("slice bounds out of range")
                      ELSE IF Len(addressBytes.s) # AddressLen
                      THEN Panic("off by one error")
                      ELSE [status  |-> "ok",
                            err     |-> "",
                            Address |-> CopyAddress(addressBytes.s),
                            Amount  |-> AmountOfValue(value),
                            Fee     |-> FeeOfBytes(feeBytes.s)]

\* GetWithdrawalData with the address the connector handed out
GetWithdrawalData(fee, cAddress) ==
    LET feeBytes     == PutUint64(fee)
        addressBytes == [i \in 1..AddressLen |-> cAddress[i] % 256]
    IN  feeBytes \o addressBytes


(***************************************************************************)
(* Text: a string is the sequence of its characters.                       *)
(***************************************************************************)
LowerHex == <<"0", "1", "2", "3", "4", "5", "6", "7",
              "8", "9", "a", "b", "c", "d", "e", "f">>

UpperHex == <<"0", "1", "2", "3", "4", "5", "6", "7",
              "8", "9", "A", "B", "C", "D", "E", "F">>

\* strings.ToLower, on the characters hexadecimal text is made of
LowerChar(c) ==
    IF \E n \in 11..16 : UpperHex[n] = c
    THEN LowerHex[CHOOSE n \in 11..16 : UpperHex[n] = c]
    ELSE IF c = "X" THEN "x" ELSE c

ToLower(str) == [i \in 1..Len(str) |-> LowerChar(str[i])]

IsHexChar(c) == \E n \in 1..16 : LowerHex[n] = LowerChar(c)

\* the value 0..15 of a hexadecimal character
Nibble(c) == (CHOOSE n \in 1..16 : LowerHex[n] = LowerChar(c)) - 1

\* hex.EncodeToString: two lower-case characters a byte
RECURSIVE BytesToHex(_)
BytesToHex(bytes) ==
    IF bytes = <<>> THEN <<>>
    ELSE <<LowerHex[(Head(bytes) \div 16) + 1], LowerHex[(Head(bytes) % 16) + 1]>>
         \o BytesToHex(Tail(bytes))

\* hex.DecodeString of well-formed text of even length
RECURSIVE HexToBytes(_)
HexToBytes(str) ==
    IF Len(str) < 2 THEN <<>>
    ELSE <<Nibble(str[1]) * 16 + Nibble(str[2])>> \o HexToBytes(SubSeq(str, 3, Len(str)))

HasPrefix0x(str) == Len(str) >= 2 /\ str[1] = "0" /\ LowerChar(str[2]) = "x"

\* s[2:] of a string that starts with "0x"
Strip0x(str) == SubSeq(str, 3, Len(str))

RECURSIVE SumOf(_)
SumOf(bytes) == IF bytes = <<>> THEN 0 ELSE Head(bytes) + SumOf(Tail(bytes))

\* common.Address.Hex(): "0x" and the EIP-55 mixed-case text of the 20 bytes.
\* Which letters the checksum raises is decided by a Keccak digest of the
\* text; the digest is replaced here by one over the byte values.
AddressHex(bytes) ==
    LET low == BytesToHex(bytes)
        dg  == SumOf(bytes)
    IN  <<"0", "x">> \o
        [i \in 1..Len(low) |->
            IF (dg + i) % 3 = 0 THEN UpperHex[Nibble(low[i]) + 1] ELSE low[i]]

\* common.HexToAddress: optional "0x", either case, the low 20 bytes, left-padded
HexToAddress(str) ==
    LET body  == IF HasPrefix0x(str) THEN Strip0x(str) ELSE str
        even  == IF Len(body) % 2 = 1 THEN <<"0">> \o body ELSE body
        bytes == HexToBytes(even)
        n     == Len(bytes)
    IN  IF n >= AddressLen THEN SubSeq(bytes, n - AddressLen + 1, n)
        ELSE [i \in 1..(AddressLen - n) |-> 0] \o bytes

\* common.Hash.Hex(): "0x" and the lower-case text of the bytes
HashHex(hash) == <<"0", "x">> \o BytesToHex(hash)

(***************************************************************************)
(* Treasury identity                                                       *)
(***************************************************************************)
TREASURY_PRIVATE_KEY ==
    <<
       "d", "e", "a", "d", "b", "e", "e", "f", "d", "e", "a", "d", "b", "e", "e", "f",
       "d", "e", "a", "d", "b", "e", "e", "f", "d", "e", "a", "d", "b", "e", "e", "f",
       "d", "e", "a", "d", "b", "e", "e", "f", "d", "e", "a", "d", "b", "e", "e", "f",
       "d", "e", "a", "d", "b", "e", "e", "f", "d", "e", "a", "d", "b", "e", "e", "f" >>

TREASURY_ACCOUNT ==
    <<
       "0", "x", "c", "9", "6", "a", "a", "a", "5", "4", "e", "2", "d", "4", "4", "c",
       "2", "9", "9", "5", "6", "4", "d", "a", "7", "6", "e", "1", "c", "d", "3", "1",
       "8", "4", "a", "2", "3", "8", "6", "b", "8", "d" >>

\* the order of the secp256k1 group, in hexadecimal
Secp256k1N ==
    <<
       "f", "f", "f", "f", "f", "f", "f", "f", "f", "f", "f", "f", "f", "f", "f", "f",
       "f", "f", "f", "f", "f", "f", "f", "f", "f", "f", "f", "f", "f", "f", "f", "e",
       "b", "a", "a", "e", "d", "c", "e", "6", "a", "f", "4", "8", "a", "0", "3", "b",
       "b", "f", "d", "2", "5", "e", "8", "c", "d", "0", "3", "6", "4", "1", "4", "1" >>

\* -1, 0, 1 comparing two hexadecimal numerals of the same length
RECURSIVE HexCmp(_, _)
HexCmp(a, b) ==
    IF a = <<>> THEN 0
    ELSE IF Nibble(Head(a)) < Nibble(Head(b)) THEN -1
    ELSE IF Nibble(Head(a)) > Nibble(Head(b)) THEN 1
    ELSE HexCmp(Tail(a), Tail(b))

\* crypto.HexToECDSA succeeds: 32 bytes of hexadecimal, 0 < key < N
ValidKey(k) ==
    /\ Len(k) = 64
    /\ \A i \in 1..Len(k) : IsHexChar(k[i])
    /\ \E i \in 1..Len(k) : Nibble(k[i]) # 0
    /\ HexCmp(k, Secp256k1N) < 0

\* crypto.PubkeyToAddress of the key's public key.  The curve and the hash
\* are outside the repository: the fixed key is given the address it is
\* known to have, any other key the address spelled by its own low 20 bytes.
PubkeyToAddress(k) ==
    IF k = TREASURY_PRIVATE_KEY
    THEN HexToAddress(TREASURY_ACCOUNT)
    ELSE HexToAddress(k)


TreasuryUnchecked(actualTreasuryAccount) == TRUE

\* TREASURY_ACCOUNT != actualTreasuryAccount is the test that panics
TreasuryMatches(actualTreasuryAccount) == TREASURY_ACCOUNT = actualTreasuryAccount

(***************************************************************************)
(* State                                                                   *)
(***************************************************************************)
VARIABLES
    pc,         \* the process: "start", "running", "aborted" (panic in Init), "crashed"
    key,        \* the treasury private key the binary was built with
    connector,  \* TRUE once C.init has been called
    last,       \* the most recent call: its name, arguments and result
    issued,     \* connector: how many mainchain addresses it has handed out
    confirmed,  \* mainchain: deposit outputs 1..confirmed are confirmed
    consumed,   \* connector: the deposit outputs a committed block has consumed
    queued,     \* connector: the withdrawals queued for a bundle
    failed,     \* connector: the withdrawals that failed on the mainchain
    accepts,    \* history: how many committed blocks accepted each deposit output
    block,      \* the candidate block the chain engine is about to connect
    chain,      \* mainchain: per block, the critical hash it commits to (0: none)
    attempt,    \* connector: the most recent BMM request
    bmmState    \* connector: the state of that request

procVars == <<pc, key, connector>>

pegVars == <<confirmed, consumed, queued, failed, accepts, block>>

bmmVars == <<chain, attempt, bmmState>>

vars == <<pc, key, connector, last, issued, confirmed, consumed, queued, failed,
          accepts, block, chain, attempt, bmmState>>

(***************************************************************************)
(* Bounds and sample inputs                                                *)
(***************************************************************************)
MaxDataLen == 29

MaxAddresses == 2

AlteredKey == [TREASURY_PRIVATE_KEY EXCEPT ![64] = "e"]

KeySamples ==
    { TREASURY_PRIVATE_KEY,
      AlteredKey,
      [i \in 1..64 |-> "0"],
      [i \in 1..64 |-> "f"],
      [TREASURY_PRIVATE_KEY EXCEPT ![1] = "z"],
      SubSeq(TREASURY_PRIVATE_KEY, 1, 8) }

FeeSamples ==
    { <<>>, <<1>>, Dec(<<1, 0, 0, 0>>), Dec(<<4, 2, 9, 4, 9, 6, 7, 2, 9, 6>>),
      NatSub(Two63, <<1>>), Two63, NatSub(Two64, <<1>>) }

AmountSamples ==
    { <<>>, <<1>>, Dec(<<1, 2, 3, 4, 5>>),
      Dec(<<2, 1, 0, 0, 0, 0, 0, 0, 0, 0, 0, 0, 0, 0, 0, 0>>) }

RemainderSamples == { <<>>, <<1>>, NatSub(Satoshi, <<1>>) }

\* the values handed to DecodeWithdrawal: s * 10^10 + r, and two negative ones
ValueSamples ==
    [s : AmountSamples, r : RemainderSamples, neg : {FALSE}]
    \cup [s : {<<1>>}, r : {<<>>, <<1>>}, neg : {TRUE}]

\* the values tried with bytes of the wrong length
WrongLengthValues ==
    { v \in ValueSamples : v.s = <<1>> /\ v.r = <<1>> }
    \cup { v \in ValueSamples : v.s = <<>> /\ v.r = <<>> }

ValueOf(v) == BigInt(v.neg, NatAdd(NatMul(v.s, Satoshi), v.r))

ZeroData(n) == [i \in 1..n |-> 0]

RampData(n) == [i \in 1..n |-> (i * 37 + 128) % 256]

DataSamples ==
    { ZeroData(n) : n \in 0..MaxDataLen }
    \cup { RampData(n) : n \in (WithdrawalDataLen - 1)..MaxDataLen }

(***************************************************************************)
(* The mainchain connector (native library), as the codec uses it          *)
(***************************************************************************)
\* get_new_mainchain_address: the n-th address handed out, 20 bytes
native_get_new_mainchain_address(n) ==
    [i \in 1..AddressLen |-> ((n - 1) * (17 * i + 200)) % 256]

(***************************************************************************)
(* Deposits, withdrawals and refunds of a block                            *)
(***************************************************************************)
\* how many deposits, withdrawals and refunds a candidate block holds in all
MaxBlockItems == 2

\* the deposit outputs the mainchain may confirm, in this order
Outputs == {1, 2}

\* the sidechain transactions that may withdraw
TxIds == {1, 2}

\* the sidechain account deposit output k pays to
OutputAccount(k) == [i \in 1..AddressLen |-> (k * 53 + i * 11) % 256]

\* 10^8 satoshi, one BTC
OneBTC == Dec(<<1, 0, 0, 0, 0, 0, 0, 0, 0>>)

\* the hash of sidechain transaction n (a common.Hash, 32 bytes)
TxHash(n) == [i \in 1..32 |-> (n * 29 + i * 3) % 256]

\* get_deposit_outputs: the k-th deposit output, as the connector reports it
native_deposit_output ==
    [k \in Outputs |->
        [address |-> <<"0", "x">> \o BytesToHex(OutputAccount(k)),
         amount  |-> NatMulSmall(OneBTC, k)]]

\* GetDepositOutputs over the raw deposits the connector returned
GetDepositOutputs(rawDeposits) ==
    [i \in 1..Len(rawDeposits) |->
        [Address |-> HexToAddress(rawDeposits[i].address),
         Amount  |-> NewIntOfInt64(rawDeposits[i].amount)]]

\* the Deposit the chain engine holds for deposit output k
GoDeposit == [k \in Outputs |-> GetDepositOutputs(<<native_deposit_output[k]>>)[1]]

\* the Withdrawal the chain engine holds for transaction n: decoded from the
\* transfer's value and data
GoWithdrawal ==
    [n \in TxIds |->
        DecodeWithdrawal(
            BigNat(NatMulSmall(Satoshi, 5000 * n)),
            GetWithdrawalData(NatOfInt(1000 * n), native_get_new_mainchain_address(n)))]

\* C.Deposit{address: C.CString(strings.ToLower(deposit.Address.String())),
\*           amount: C.ulong(deposit.Amount.Uint64())}
CDeposit(deposit) ==
    [address |-> ToLower(AddressHex(deposit.Address)),
     amount  |-> BigUint64(deposit.Amount)]

\* C.Withdrawal{id: C.CString(id.Hex()), address, amount, fee}
CWithdrawal(id, w) ==
    [id      |-> HashHex(id),
     address |-> w.Address,
     amount  |-> BigUint64(w.Amount),
     fee     |-> BigUint64(w.Fee)]

\* C.Refund{id: C.CString(r.Hex())}
CRefund(r) == [id |-> HashHex(r)]

CDepositOf == [k \in Outputs |-> CDeposit(GoDeposit[k])]

CWithdrawalOf == [n \in TxIds |-> CWithdrawal(TxHash(n), GoWithdrawal[n])]

CRefundOf == [n \in TxIds |-> CRefund(TxHash(n))]

\* what a C.Refund reads as once the bytes behind it have been overwritten
GarbledRefund == [id |-> <<"?">>]

DepositsLenShort(deposits) == IF Len(deposits) = 0 THEN 0 ELSE Len(deposits) - 1

\* cDeposits.len: C.ulong(len(deposits))
DepositsLen(deposits) == Len(deposits)

\* C.malloc(len(deposits) * sizeof(C.Deposit)), in elements
DepositsCapacity(deposits) == Len(deposits)

\* C.malloc(len(withdrawals) * sizeof(C.Withdrawal)), in elements
WithdrawalsCapacity(withdrawals) == Cardinality(withdrawals)

\* refundsMemory: C.malloc(len(withdrawals) * sizeof(C.Refund)), in elements
RefundsCapacity(withdrawals, refunds) == Cardinality(withdrawals)

\* the indices i at which refundsSlice[i] = cRefund writes past refundsMemory
\* (the model counts from 1)
RefundsOutOfBounds(withdrawals, refunds) ==
    { i \in 1..Len(refunds) : i > RefundsCapacity(withdrawals, refunds) }

\* Writing past a C allocation is undefined.  The write may land in the
\* allocator's slack and be read back unchanged ("intact"), may be
\* overwritten or overwrite the text it points to before the library reads
\* it ("garbled"), or may corrupt the allocator so that the process dies in
\* a later C.CString ("crash").
OverflowOutcomes(withdrawals, refunds) ==
    IF RefundsOutOfBounds(withdrawals, refunds) = {}
    THEN {"none"}
    ELSE {"intact", "garbled", "crash"}

\* the orders in which `for id, w := range withdrawals` can visit the map
Orders(S) ==
    { f \in [1..Cardinality(S) -> S] : \A i, j \in 1..Cardinality(S) : f[i] = f[j] => i = j }

ResultDropped(r) == FALSE

\* return bool(C.connect_block(...))
ConnectBlockResult(r) == r

\* C.bool(just_checking)
CJustChecking(just_checking) == just_checking

(***************************************************************************)
(* connect_block in the native library, from the written specification:    *)
(* full validation in both modes, and an all-or-nothing commit.            *)
(***************************************************************************)
\* the deposit output a C.Deposit names (0: none)
native_output_of(c) ==
    IF \E k \in Outputs : native_deposit_output[k] = c
    THEN CHOOSE k \in Outputs : native_deposit_output[k] = c
    ELSE 0

\* the transaction an id string names (0: none)
native_txid_of(str) ==
    IF \E n \in TxIds : CRefundOf[n].id = str
    THEN CHOOSE n \in TxIds : CRefundOf[n].id = str
    ELSE 0

NoRepeats(seq) == \A i, j \in 1..Len(seq) : seq[i] = seq[j] => i = j

native_block_valid(ks, ws, rs) ==
    /\ \A i \in 1..Len(ks) : ks[i] \in 1..confirmed /\ ks[i] \notin consumed
    /\ NoRepeats(ks)
    /\ \A i \in 1..Len(ws) : ws[i] # 0 /\ ws[i] \notin (queued \cup failed)
    /\ NoRepeats(ws)
    /\ \A i \in 1..Len(rs) : rs[i] \in failed
    /\ NoRepeats(rs)

Range(seq) == { seq[i] : i \in 1..Len(seq) }

\* connect_block(deposits, withdrawals, refunds, just_checking): the verdict
\* and the connector's state after the call
native_connect_block(cDeposits, cWithdrawals, cRefunds, just_checking) ==
    LET ks == [i \in 1..Len(cDeposits) |-> native_output_of(cDeposits[i])]
        ws == [i \in 1..Len(cWithdrawals) |-> native_txid_of(cWithdrawals[i].id)]
        rs == [i \in 1..Len(cRefunds) |-> native_txid_of(cRefunds[i].id)]
        ok == native_block_valid(ks, ws, rs)
    IN  IF ok /\ ~just_checking
        THEN [ok       |-> TRUE,
              consumed |-> consumed \cup Range(ks),
              queued   |-> queued \cup Range(ws),
              failed   |-> failed \ Range(rs),
              refunds  |-> rs]
        ELSE [ok       |-> ok,
              consumed |-> consumed,
              queued   |-> queued,
              failed   |-> failed,
              refunds  |-> rs]

(***************************************************************************)
(* Blind merged mining                                                     *)
(***************************************************************************)
\* type BmmState uint; const ( Succeded BmmState = iota; Failed; Pending )
Succeded == 0

Failed == 1

Pending == 2

MaxMainBlocks == 2

\* the sidechain headers that may be committed to
Criticals == {1, 2}

\* the hash of mainchain block i (0: the block the chain starts from)
MainHash(i) == [j \in 1..32 |-> (i * 101 + j * 7) % 256]

\* header.Hash() of sidechain header c
CriticalHash(c) == [j \in 1..32 |-> (c * 67 + j * 5) % 256]

HexKeepPrefix(hash) == HashHex(hash)

\* hash.Hex()[2:]
HexNoPrefix(hash) == Strip0x(HashHex(hash))

\* AttemptBmm: the strings attemptBmm hands to attempt_bmm
AttemptBmmArgs(header) ==
    [criticalHash      |-> HexNoPrefix(header.Hash),
     prevMainBlockHash |-> HexNoPrefix(header.PrevMainBlockHash)]

\* VerifyBmm: the strings verifyBmm hands to verify_bmm
VerifyBmmArgs(mainBlockHash, criticalHash) ==
    [mainBlockHash |-> HexNoPrefix(mainBlockHash),
     criticalHash  |-> HexNoPrefix(criticalHash)]

BmmStateShifted(c) == (c + 1) % 3

\* BmmState(C.confirm_bmm())
ConfirmBmm(c) == c

\* the library's text of the hashes it knows: 64 hexadecimal characters
native_main_text == [i \in 0..MaxMainBlocks |-> BytesToHex(MainHash(i))]

native_critical_text == [c \in Criticals |-> BytesToHex(CriticalHash(c))]

\* the mainchain block a string names (-1: none)
native_main_of(str) ==
    IF \E i \in 0..MaxMainBlocks : native_main_text[i] = str
    THEN CHOOSE i \in 0..MaxMainBlocks : native_main_text[i] = str
    ELSE -1

\* the sidechain header a string names (0: none)
native_critical_of(str) ==
    IF \E c \in Criticals : native_critical_text[c] = str
    THEN CHOOSE c \in Criticals : native_critical_text[c] = str
    ELSE 0

\* attempt_bmm, from the written specification: the request is recorded
native_attempt_bmm(criticalHash, prevMainBlockHash) ==
    [made     |-> TRUE,
     critical |-> native_critical_of(criticalHash),
     prev     |-> native_main_of(prevMainBlockHash)]

\* confirm_bmm, from the written specification: Pending until the block after
\* prev exists, then Succeeded if that block commits to the critical hash
\* and Failed if it does not; Succeeded and Failed stay
native_confirm_bmm ==
    IF bmmState # Pending THEN bmmState
    ELSE IF attempt.prev < 0 \/ attempt.critical = 0 THEN Failed
    ELSE IF attempt.prev + 1 > Len(chain) THEN Pending
    ELSE IF chain[attempt.prev + 1] = attempt.critical THEN Succeded
    ELSE Failed

\* verify_bmm, from the written specification: whether the mainchain block
\* commits to the critical hash
native_verify_bmm(mainBlockHash, criticalHash) ==
    LET i == native_main_of(mainBlockHash)
        c == native_critical_of(criticalHash)
    IN  i \in 1..Len(chain) /\ c # 0 /\ chain[i] = c

(***************************************************************************)
(* Operations                                                              *)
(***************************************************************************)
EmptyBlock == [deposits |-> <<>>, withdrawals |-> {}, refunds |-> <<>>]

NoAttempt == [made |-> FALSE, critical |-> 0, prev |-> 0]

Start ==
    /\ pc = "start"
    /\ key \in KeySamples
    /\ connector = FALSE
    /\ last = [op |-> "none"]
    /\ issued = 0
    /\ confirmed = 0
    /\ consumed = {}
    /\ queued = {}
    /\ failed = {}
    /\ accepts = [k \in Outputs |-> 0]
    /\ block = EmptyBlock
    /\ chain = <<>>
    /\ attempt = NoAttempt
    /\ bmmState = Pending

Init ==
    /\ pc = "start"
    /\ IF ~ValidKey(key)
       THEN /\ pc' = "aborted"
            /\ last' = [op |-> "Init", panic |-> "can't get treasury private key"]
            /\ UNCHANGED connector
       ELSE LET address               == PubkeyToAddress(key)
                actualTreasuryAccount == ToLower(AddressHex(address))
            IN  IF ~TreasuryMatches(actualTreasuryAccount)
                THEN /\ pc' = "aborted"
                     /\ last' = [op |-> "Init", panic |-> "treasury account"]
                     /\ UNCHANGED connector
                ELSE /\ connector' = TRUE
                     /\ pc' = "running"
                     /\ last' = [op |-> "Init", panic |-> ""]
    /\ UNCHANGED <<key, issued, pegVars, bmmVars>>

GetWithdrawalDataCall ==
    /\ pc = "running"
    /\ issued < MaxAddresses
    /\ \E fee \in FeeSamples :
         LET cAddress == native_get_new_mainchain_address(issued + 1)
         IN  last' = [op      |-> "GetWithdrawalData",
                      fee     |-> fee,
                      address |-> cAddress,
                      data    |-> GetWithdrawalData(fee, cAddress)]
    /\ issued' = issued + 1
    /\ UNCHANGED <<procVars, pegVars, bmmVars>>

\* DecodeWithdrawal of sample bytes
DecodeWithdrawalCall ==
    /\ pc = "running"
    /\ \E v \in ValueSamples, data \in DataSamples :
         /\ Len(data) # WithdrawalDataLen => v \in WrongLengthValues
         /\ last' = [op      |-> "DecodeWithdrawal",
                     value   |-> v,
                     data    |-> data,
                     encoded |-> FALSE,
                     res     |-> DecodeWithdrawal(ValueOf(v), data)]
    /\ UNCHANGED <<procVars, issued, pegVars, bmmVars>>

\* DecodeWithdrawal of the bytes GetWithdrawalData has just returned; the
\* record keeps the fee and the address that went into them
DecodeEncodedCall ==
    /\ pc = "running"
    /\ last.op = "GetWithdrawalData"
    /\ \E v \in ValueSamples :
         last' = [op      |-> "DecodeWithdrawal",
                  value   |-> v,
                  data    |-> last.data,
                  encoded |-> TRUE,
                  fee     |-> last.fee,
                  address |-> last.address,
                  res     |-> DecodeWithdrawal(ValueOf(v), last.data)]
    /\ UNCHANGED <<procVars, issued, pegVars, bmmVars>>

\* the mainchain confirms the next deposit output
MainchainConfirmDeposit ==
    /\ pc = "running"
    /\ confirmed < Cardinality(Outputs)
    /\ confirmed' = confirmed + 1
    /\ last' = [op |-> "mainchain"]
    /\ UNCHANGED <<procVars, issued, consumed, queued, failed, accepts, block, bmmVars>>

\* a queued withdrawal fails on the mainchain and becomes refundable
MainchainFailWithdrawal ==
    /\ pc = "running"
    /\ \E n \in queued :
         /\ queued' = queued \ {n}
         /\ failed' = failed \cup {n}
    /\ last' = [op |-> "mainchain"]
    /\ UNCHANGED <<procVars, issued, confirmed, consumed, accepts, block, bmmVars>>

BlockItems == Len(block.deposits) + Cardinality(block.withdrawals) + Len(block.refunds)

\* the chain engine assembles the candidate block it will hand to ConnectBlock
BlockAddDeposit ==
    /\ pc = "running"
    /\ BlockItems < MaxBlockItems
    /\ \E k \in Outputs : block' = [block EXCEPT !.deposits = Append(@, k)]
    /\ last' = [op |-> "engine"]
    /\ UNCHANGED <<procVars, issued, confirmed, consumed, queued, failed, accepts, bmmVars>>

BlockAddWithdrawal ==
    /\ pc = "running"
    /\ BlockItems < MaxBlockItems
    /\ \E n \in TxIds \ block.withdrawals :
         block' = [block EXCEPT !.withdrawals = @ \cup {n}]
    /\ last' = [op |-> "engine"]
    /\ UNCHANGED <<procVars, issued, confirmed, consumed, queued, failed, accepts, bmmVars>>

BlockAddRefund ==
    /\ pc = "running"
    /\ BlockItems < MaxBlockItems
    /\ \E n \in TxIds : block' = [block EXCEPT !.refunds = Append(@, n)]
    /\ last' = [op |-> "engine"]
    /\ UNCHANGED <<procVars, issued, confirmed, consumed, queued, failed, accepts, bmmVars>>

BlockNext ==
    /\ pc = "running"
    /\ block # EmptyBlock
    /\ block' = EmptyBlock
    /\ last' = [op |-> "engine"]
    /\ UNCHANGED <<procVars, issued, confirmed, consumed, queued, failed, accepts, bmmVars>>

GetDepositOutputsCall ==
    /\ pc = "running"
    /\ last' = [op       |-> "GetDepositOutputs",
                deposits |-> GetDepositOutputs([k \in 1..confirmed |-> native_deposit_output[k]])]
    /\ UNCHANGED <<procVars, issued, pegVars, bmmVars>>

\* what the previous call returned, when it was a ConnectBlock of this same block
Previous ==
    IF last.op = "ConnectBlock" /\ last.returned
    THEN [seen |-> TRUE, just_checking |-> last.just_checking, result |-> last.result]
    ELSE [seen |-> FALSE, just_checking |-> FALSE, result |-> FALSE]

\* ConnectBlock(deposits, withdrawals, refunds, just_checking) of the candidate block
ConnectBlock(just_checking) ==
    /\ pc = "running"
    /\ \E order \in Orders(block.withdrawals),
          overflow \in OverflowOutcomes(block.withdrawals, block.refunds) :
         LET deposits     == block.deposits
             refunds      == block.refunds
             oob          == RefundsOutOfBounds(block.withdrawals, refunds)
             cDeposits    == [i \in 1..DepositsLen(deposits) |-> CDepositOf[deposits[i]]]
             cWithdrawals == [i \in 1..Len(order) |-> CWithdrawalOf[order[i]]]
             cRefunds     == [i \in 1..Len(refunds) |->
                                 IF overflow = "garbled" /\ i \in oob
                                 THEN GarbledRefund
                                 ELSE CRefundOf[refunds[i]]]
             r            == native_connect_block(cDeposits, cWithdrawals, cRefunds,
                                                  CJustChecking(just_checking))
         IN  IF overflow = "crash"
             THEN /\ pc' = "crashed"
                  /\ last' = [op            |-> "ConnectBlock",
                              just_checking |-> just_checking,
                              returned      |-> FALSE,
                              result        |-> FALSE,
                              oob           |-> oob,
                              nDeposits     |-> 0,
                              nWithdrawals  |-> 0,
                              refundsSeen   |-> <<>>,
                              mutated       |-> FALSE,
                              previous      |-> Previous]
                  /\ UNCHANGED <<consumed, queued, failed, accepts>>
             ELSE /\ pc' = pc
                  /\ consumed' = r.consumed
                  /\ queued' = r.queued
                  /\ failed' = r.failed
                  /\ accepts' = [k \in Outputs |->
                                    IF k \in r.consumed \ consumed
                                    THEN accepts[k] + 1 ELSE accepts[k]]
                  /\ last' = [op            |-> "ConnectBlock",
                              just_checking |-> just_checking,
                              returned      |-> TRUE,
                              result        |-> ConnectBlockResult(r.ok),
                              oob           |-> oob,
                              nDeposits     |-> Len(cDeposits),
                              nWithdrawals  |-> Len(cWithdrawals),
                              refundsSeen   |-> r.refunds,
                              mutated       |-> <<r.consumed, r.queued, r.failed>>
                                                    # <<consumed, queued, failed>>,
                              previous      |-> Previous]
    /\ UNCHANGED <<key, connector, issued, confirmed, block, bmmVars>>

ConnectBlockCall == \E just_checking \in BOOLEAN : ConnectBlock(just_checking)

\* a mainchain miner extends the chain; the block may commit to a sidechain header
MainchainMine ==
    /\ pc = "running"
    /\ Len(chain) < MaxMainBlocks
    /\ \E c \in {0} \cup Criticals : chain' = Append(chain, c)
    /\ last' = [op |-> "mainchain"]
    /\ UNCHANGED <<procVars, issued, pegVars, attempt, bmmState>>

\* AttemptBmm(header, amount), the header built on a known mainchain block
AttemptBmmCall ==
    /\ pc = "running"
    /\ \E c \in Criticals, p \in 0..Len(chain) :
         LET header == [Hash |-> CriticalHash(c), PrevMainBlockHash |-> MainHash(p)]
             args   == AttemptBmmArgs(header)
         IN  /\ attempt' = native_attempt_bmm(args.criticalHash, args.prevMainBlockHash)
             /\ bmmState' = Pending
             /\ last' = [op |-> "AttemptBmm", critical |-> c, prev |-> p]
    /\ UNCHANGED <<procVars, issued, pegVars, chain>>

\* ConfirmBmm().  What confirm_bmm answers before any request was made is
\* not specified: any of the three states.
ConfirmBmmCall ==
    /\ pc = "running"
    /\ IF attempt.made
       THEN /\ bmmState' = native_confirm_bmm
            /\ last' = [op     |-> "ConfirmBmm",
                        before |-> bmmState,
                        result |-> ConfirmBmm(native_confirm_bmm)]
       ELSE /\ \E c \in {Succeded, Failed, Pending} :
                 last' = [op |-> "ConfirmBmm", before |-> bmmState, result |-> ConfirmBmm(c)]
            /\ UNCHANGED bmmState
    /\ UNCHANGED <<procVars, issued, pegVars, chain, attempt>>

\* VerifyBmm(mainBlockHash, criticalHash)
VerifyBmmCall ==
    /\ pc = "running"
    /\ \E i \in 0..MaxMainBlocks, c \in Criticals :
         LET args == VerifyBmmArgs(MainHash(i), CriticalHash(c))
         IN  last' = [op       |-> "VerifyBmm",
                      main     |-> i,
                      critical |-> c,
                      result   |-> native_verify_bmm(args.mainBlockHash, args.criticalHash)]
    /\ UNCHANGED <<procVars, issued, pegVars, bmmVars>>

NextCodec ==
    \/ Init
    \/ GetWithdrawalDataCall
    \/ DecodeWithdrawalCall
    \/ DecodeEncodedCall

SpecCodec == Start /\ [][NextCodec]_vars

NextPeg ==
    \/ Init
    \/ MainchainConfirmDeposit
    \/ MainchainFailWithdrawal
    \/ BlockAddDeposit
    \/ BlockAddWithdrawal
    \/ BlockAddRefund
    \/ BlockNext
    \/ GetDepositOutputsCall
    \/ ConnectBlockCall

SpecPeg == Start /\ [][NextPeg]_vars

NextBmm ==
    \/ Init
    \/ MainchainMine
    \/ AttemptBmmCall
    \/ ConfirmBmmCall
    \/ VerifyBmmCall
    \/ ConnectBlockCall

SpecBmm == Start /\ [][NextBmm]_vars

(***************************************************************************)
(* Properties of the withdrawal codec (under SpecCodec)                    *)
(***************************************************************************)
\* C1: DecodeWithdrawal returns an error, and does not panic, for bytes of
\* any length other than 28 and any value; for 28 bytes it returns a
\* Withdrawal and no error, and neither "off by one" panic is reached.
DecodeLengthGuard ==
    last.op = "DecodeWithdrawal" =>
        /\ last.res.status # "panic"
        /\ Len(last.data) # 28 => last.res.status = "error"
        /\ Len(last.data) = 28 => last.res.status = "ok"

\* 27 zero bytes were decoded with a non-zero value, and the result is an error
DecodeLengthGuardSeen ==
    /\ last.op = "DecodeWithdrawal"
    /\ last.data = ZeroData(27)
    /\ last.value.s # <<>>
    /\ last.res.status = "error"

\* C2: GetWithdrawalData(f) is 28 bytes, f big-endian in bytes [0,8) and the
\* address handed out in bytes [8,28), and decoding those bytes with any
\* value gives back Fee = f and Address = a.
EncodeDecodeRoundTrip ==
    /\ last.op = "GetWithdrawalData" =>
          /\ Len(last.data) = 28
          /\ Uint64(SubSeq(last.data, 1, 8)) = last.fee
          /\ SubSeq(last.data, 9, 28) = last.address
    /\ (last.op = "DecodeWithdrawal" /\ last.encoded) =>
          /\ last.res.status = "ok"
          /\ last.res.Address = last.address
          /\ last.res.Fee = BigNat(last.fee)

\* C3: for s >= 0 and 0 <= r < 10^10, decoding the value s * 10^10 + r with
\* 28 bytes gives Amount = s.
AmountIsFloorOfValue ==
    (last.op = "DecodeWithdrawal" /\ last.res.status = "ok" /\ ~last.value.neg) =>
        last.res.Amount = BigNat(last.value.s)

\* 12345 * 10^10 + (10^10 - 1) was decoded
AmountIsFloorOfValueSeen ==
    /\ last.op = "DecodeWithdrawal"
    /\ last.res.status = "ok"
    /\ ~last.value.neg
    /\ last.value.s = Dec(<<1, 2, 3, 4, 5>>)
    /\ last.value.r = NatSub(Satoshi, <<1>>)
    /\ last.res.Amount = BigNat(Dec(<<1, 2, 3, 4, 5>>))

(***************************************************************************)
(* Properties of ConnectBlock (under SpecPeg)                              *)
(***************************************************************************)
\* C4: a committing ConnectBlock that returns false leaves the consumed
\* deposits, the queued withdrawals and the failed (refundable) withdrawals
\* exactly as they were.
RejectedCommitChangesNothing ==
    [][ (last'.op = "ConnectBlock" /\ last'.returned
            /\ ~last'.just_checking /\ ~last'.result)
        => (consumed' = consumed /\ queued' = queued /\ failed' = failed) ]_vars

\* a commit was rejected for a withdrawal that is already queued, although
\* the block's deposit was confirmed and unconsumed
RejectedCommitSeen ==
    /\ last.op = "ConnectBlock"
    /\ last.returned /\ ~last.just_checking /\ ~last.result
    /\ block.deposits = <<1>> /\ confirmed >= 1 /\ 1 \notin consumed
    /\ block.withdrawals = {1} /\ 1 \in queued

\* C5: a dry run changes no persistent state, and after a dry run the next
\* call with the same block in the same state, dry run or commit, returns
\* the same verdict.
DryRunPureAndRepeatable ==
    (last.op = "ConnectBlock" /\ last.returned) =>
        /\ last.just_checking => ~last.mutated
        /\ (last.previous.seen /\ last.previous.just_checking)
              => last.result = last.previous.result

\* C6: no deposit output is accepted by more than one committing call, and
\* every ConnectBlock whose deposits include a consumed output returns false.
DepositConsumedOnce ==
    /\ [](\A k \in Outputs : accepts[k] <= 1)
    /\ [][ (last'.op = "ConnectBlock" /\ last'.returned
              /\ \E i \in 1..Len(block.deposits) : block.deposits[i] \in consumed)
           => ~last'.result ]_vars

\* a block offering a deposit that an earlier committed block consumed was rejected
DepositConsumedOnceSeen ==
    /\ last.op = "ConnectBlock"
    /\ last.returned /\ ~last.result
    /\ block.deposits = <<1>>
    /\ 1 \in consumed /\ accepts[1] = 1

\* C10: every element written while marshalling lies inside the buffer of
\* its own collection, and connect_block receives len(deposits) deposits,
\* len(withdrawals) withdrawals and the refunds, id by id.
MarshalledInBounds ==
    last.op = "ConnectBlock" =>
        /\ last.oob = {}
        /\ Len(block.deposits) <= DepositsCapacity(block.deposits)
        /\ Cardinality(block.withdrawals) <= WithdrawalsCapacity(block.withdrawals)
        /\ last.returned =>
              /\ last.nDeposits = Len(block.deposits)
              /\ last.nWithdrawals = Cardinality(block.withdrawals)
              /\ last.refundsSeen = block.refunds

(***************************************************************************)
(* Properties of blind merged mining (under SpecBmm)                       *)
(***************************************************************************)
\* C7: the request is Pending right after AttemptBmm; ConfirmBmm returns
\* the request's state, one of the three; only ConfirmBmm moves it, and
\* once it is Succeeded or Failed it stays so until the next AttemptBmm.
BmmStateMachine ==
    /\ [](last.op = "AttemptBmm" => bmmState = Pending)
    /\ [](last.op = "ConfirmBmm" =>
            /\ last.result \in {Succeded, Failed, Pending}
            /\ attempt.made => last.result = bmmState
            /\ (attempt.made /\ last.before \in {Succeded, Failed})
                  => last.result = last.before)
    /\ [][ last'.op \notin {"AttemptBmm", "ConfirmBmm"} => bmmState' = bmmState ]_vars
    /\ [][ (last'.op = "ConfirmBmm" /\ attempt.made /\ bmmState # Pending)
           => bmmState' = bmmState ]_vars

\* ConfirmBmm returned Succeeded for a request that was already Succeeded
BmmStateMachineSeen ==
    /\ last.op = "ConfirmBmm"
    /\ attempt.made
    /\ last.before = Succeded
    /\ last.result = Succeded
    /\ Len(chain) > attempt.prev + 1

\* C8: VerifyBmm answers whether the mainchain block commits to the
\* critical hash, whatever was attempted, confirmed or connected before,
\* and it changes no state.
VerifyBmmIsPure ==
    /\ [](last.op = "VerifyBmm" =>
            last.result = (last.main \in 1..Len(chain) /\ chain[last.main] = last.critical))
    /\ [][ last'.op = "VerifyBmm" =>
             UNCHANGED <<pc, key, connector, issued, pegVars, bmmVars>> ]_vars

\* VerifyBmm confirmed a commitment while the local request, for another
\* header at the same height, has Failed
VerifyBmmIsPureSeen ==
    /\ last.op = "VerifyBmm"
    /\ last.result
    /\ attempt.made
    /\ bmmState = Failed
    /\ attempt.critical # last.critical

(***************************************************************************)
(* Treasury identity (under SpecPeg)                                       *)
(***************************************************************************)
\* C9: the connector is initialised only if the key is valid and the
\* address derived from it is TREASURY_ACCOUNT; otherwise Init aborts, the
\* connector stays uninitialised and no other operation runs.
TreasuryFailsClosed ==
    /\ connector =>
          /\ ValidKey(key)
          /\ ToLower(AddressHex(PubkeyToAddress(key))) = TREASURY_ACCOUNT
    /\ pc = "aborted" => (~connector /\ last.op = "Init")
    /\ last.op \notin {"none", "Init"} => connector

\* Init aborted on a valid key that derives another address
TreasuryFailsClosedSeen ==
    /\ pc = "aborted"
    /\ key = AlteredKey
    /\ ValidKey(key)
    /\ ~connector

=============================================================================
